---- MODULE Spec2Model ----
(***************************************************************************)
(* facet-kdl: the KDL deserializer (src/src/lib.rs) and the KDL serializer *)
(* (src/src/serialize.rs), modelled as state machines.                     *)
(*                                                                         *)
(* The deserializer walks a parsed KDL document and drives a               *)
(* facet_reflect::Partial (the builder cursor `wip`).  The document is     *)
(* read node by node and entry by entry, as the `for` loops of the code    *)
(* read it; `doc` records what has been read.  The Partial and the value   *)
(* traversal of facet_serialize belong to other crates: their operations   *)
(* are modelled as the stack cursor they are (begin_* pushes a frame,      *)
(* end pops one, set/set_default/parse_from_str write the current frame,   *)
(* build needs the root frame alone and every required field written).     *)
(***************************************************************************)
EXTENDS Integers, Sequences, FiniteSets, TLC

VARIABLES
    shape,   \* the target type T of from_str::<T>
    pc,      \* "start", "walk", "ok", "err" or "panic": where from_str is
    ctl,     \* the call stack of deserialize_node / deserialize_children
    wip,     \* the Partial: frames, written fields, error, log of operations
    doc,     \* the document read so far, as tokens
    ser,     \* the KdlSerializer
    val,     \* the value given to to_string
    calls    \* the Serializer calls made on ser so far

vars == <<shape, pc, ctl, wip, doc, ser, val, calls>>

\* ------------------------------------------------------------------ bounds

MaxTokens == 5     \* nodes and entries of a document, together
MaxElems == 2      \* elements of a Vec given to to_string
MaxCalls == 3      \* Serializer methods called in a row

\* ------------------------------------- 128-bit integers (kdl::KdlValue::Integer)
\* An i128 is its two's complement bit pattern: eight 16-bit limbs, limb 1 the
\* least significant.

Limbs == 1..8
Pow2(e) == 2 ^ e
LimbMax == Pow2(16) - 1

FromNat(k) ==
    [i \in Limbs |-> IF i = 1 THEN k % Pow2(16)
                     ELSE IF i = 2 THEN k \div Pow2(16) ELSE 0]
BitNot(p) == [i \in Limbs |-> LimbMax - p[i]]
FromInt(k) == IF k >= 0 THEN FromNat(k) ELSE BitNot(FromNat(-k - 1))

\* the pattern whose low `bits` bits are set
Ones(bits) ==
    [i \in Limbs |-> IF 16 * i <= bits THEN LimbMax
                     ELSE IF 16 * (i - 1) < bits THEN Pow2(bits - 16 * (i - 1)) - 1
                     ELSE 0]

IsNeg(p) == p[8] >= Pow2(15)
ULess(a, b) == \E i \in Limbs : a[i] < b[i] /\ \A j \in Limbs : j > i => a[j] = b[j]
\* a <= b on i128
SLe(a, b) ==
    IF IsNeg(a) # IsNeg(b) THEN IsNeg(a) ELSE a = b \/ ULess(a, b)

Inc(p) ==
    IF \A i \in Limbs : p[i] = LimbMax THEN [i \in Limbs |-> 0]
    ELSE LET c == CHOOSE i \in Limbs : p[i] # LimbMax /\ \A j \in Limbs : j < i => p[j] = LimbMax
         IN [i \in Limbs |-> IF i < c THEN 0 ELSE IF i = c THEN p[i] + 1 ELSE p[i]]
Dec(p) == BitNot(Inc(BitNot(p)))

\* bit `bit` (0-based) of the pattern
BitSet(p, bit) == (p[(bit \div 16) + 1] \div Pow2(bit % 16)) % 2 = 1

\* `n as iW` / `n as uW` followed by the value's own numeric reading, again as
\* an i128 pattern: the low `bits` bits, sign- or zero-extended.
Truncate(p, bits) ==
    [i \in Limbs |-> IF 16 * i <= bits THEN p[i]
                     ELSE IF 16 * (i - 1) < bits THEN p[i] % Pow2(bits - 16 * (i - 1))
                     ELSE 0]
AsCast(p, bits, signed) ==
    LET t == Truncate(p, bits)
    IN IF signed /\ BitSet(t, bits - 1)
       THEN [i \in Limbs |-> IF 16 * i <= bits THEN t[i]
                             ELSE IF 16 * (i - 1) < bits
                                  THEN t[i] + (Pow2(16) - Pow2(bits - 16 * (i - 1)))
                                  ELSE LimbMax]
       ELSE t

\* --------------------------------------------------------- scalar kinds

SignedKinds == {"I8", "I16", "I32", "I64", "I128", "ISize"}
UnsignedKinds == {"U8", "U16", "U32", "U64", "U128", "USize"}
IntKinds == SignedKinds \cup UnsignedKinds

\* width of the kind; isize and usize are those of a 64-bit target
Bits(kind) ==
    CASE kind \in {"I8", "U8"} -> 8
      [] kind \in {"I16", "U16"} -> 16
      [] kind \in {"I32", "U32"} -> 32
      [] kind \in {"I64", "U64", "ISize", "USize"} -> 64
      [] kind \in {"I128", "U128"} -> 128

\* iW::MIN as i128, iW::MAX as i128, uW::MAX as i128
MinOf(kind) == IF kind \in SignedKinds THEN BitNot(Ones(Bits(kind) - 1)) ELSE FromNat(0)
MaxOf(kind) == IF kind \in SignedKinds THEN Ones(Bits(kind) - 1) ELSE Ones(Bits(kind))

\* ------------------------------------------------------ document values

NoName == "-"
\* no to_string call is running
NoValue == "-"
StrV(s) == [k |-> "String", s |-> s]
BoolV(b) == [k |-> "Bool", b |-> b]
IntV(n) == [k |-> "Integer", n |-> n]
FloatV(f) == [k |-> "Float", f |-> f]
NullV == [k |-> "Null"]

\* ------------------------------------------------- shapes (facet_core::Shape)
\* The target types of the repository's tests, and types with the field roles
\* the deserializer has to tell apart.

Fld(n, r, t, req) == [name |-> n, role |-> r, ty |-> t, required |-> req]
Scalar(kind) == [ty |-> "Primitive", def |-> "Scalar", scalar |-> kind, fields |-> <<>>]
Struct(fs) == [ty |-> "Struct", def |-> "Undefined", scalar |-> "none", fields |-> fs]
List(elem) == [ty |-> "Sequence", def |-> "List", scalar |-> "none", fields |-> <<>>]

ScalarTypes ==
    [String |-> "String", bool |-> "Bool", char |-> "Char",
     i8 |-> "I8", i16 |-> "I16", i32 |-> "I32", i64 |-> "I64", i128 |-> "I128",
     isize |-> "ISize", u8 |-> "U8", u16 |-> "U16", u32 |-> "U32", u64 |-> "U64",
     u128 |-> "U128", usize |-> "USize", f64 |-> "F64"]

StructTypes ==
    [\* tests/simple.rs: simple_string_value
     Config |-> <<Fld("name", "child", "Name", TRUE)>>,
     Name |-> <<Fld("value", "argument", "String", TRUE)>>,
     \* tests/simple.rs: simple_integer_value
     CountConfig |-> <<Fld("count", "argument", "i64", TRUE)>>,
     \* tests/minimal_test.rs
     SimpleString |-> <<Fld("value", "property", "String", TRUE)>>,
     SimpleInt |-> <<Fld("count", "none", "i32", TRUE)>>,
     \* tests/debug_deser.rs: test_root_with_children, test_process_list
     RootConfig |-> <<Fld("settings", "child", "Settings", TRUE)>>,
     Settings |-> <<Fld("enabled", "property", "bool", TRUE)>>,
     ProcessList |-> <<Fld("process", "child", "VecProcess", TRUE)>>,
     Process |-> <<Fld("id", "argument", "String", TRUE),
                   Fld("command", "property", "String", TRUE)>>,
     \* tests/serialize_only.rs: SimpleProcess
     SimpleProcess |-> <<Fld("id", "argument", "String", TRUE),
                         Fld("command", "property", "String", TRUE),
                         Fld("enabled", "property", "bool", TRUE)>>,
     \* three Argument-role fields of three kinds, under a Child-role field
     TripleRoot |-> <<Fld("t", "child", "Triple", TRUE)>>,
     Triple |-> <<Fld("a", "argument", "String", TRUE),
                  Fld("b", "argument", "i64", TRUE),
                  Fld("c", "argument", "bool", TRUE)>>,
     \* a Property-role field declared before an Argument-role field
     MixedRoot |-> <<Fld("m", "child", "Mixed", TRUE)>>,
     Mixed |-> <<Fld("p", "property", "bool", TRUE),
                 Fld("x", "argument", "i64", TRUE)>>,
     \* tests/complex_serialize.rs: test_optional_fields, and the scalar and
     \* sequence fields of test_complex_structure's ProcessConfig
     OptionalConfig |-> <<Fld("name", "property", "String", TRUE),
                          Fld("description", "property", "OptionString", FALSE),
                          Fld("count", "property", "OptionI32", FALSE)>>,
     ArgsConfig |-> <<Fld("id", "argument", "String", TRUE),
                      Fld("args", "property", "VecString", TRUE)>>,
     \* one defaulted field of every scalar kind, named after its type
     Scalars |-> <<Fld("String", "none", "String", FALSE), Fld("bool", "none", "bool", FALSE),
                   Fld("char", "none", "char", FALSE), Fld("i8", "none", "i8", FALSE),
                   Fld("i16", "none", "i16", FALSE), Fld("i32", "none", "i32", FALSE),
                   Fld("i64", "none", "i64", FALSE), Fld("i128", "none", "i128", FALSE),
                   Fld("isize", "none", "isize", FALSE), Fld("u8", "none", "u8", FALSE),
                   Fld("u16", "none", "u16", FALSE), Fld("u32", "none", "u32", FALSE),
                   Fld("u64", "none", "u64", FALSE), Fld("u128", "none", "u128", FALSE),
                   Fld("usize", "none", "usize", FALSE), Fld("f64", "none", "f64", FALSE)>>]

ListTypes == [VecProcess |-> "Process", VecString |-> "String"]
OptionTypes == [OptionString |-> "String", OptionI32 |-> "i32"]
Option(inner) == [ty |-> "Option", def |-> "Option", scalar |-> "none", fields |-> <<>>]

ShapeOf(t) ==
    IF t \in DOMAIN ScalarTypes THEN Scalar(ScalarTypes[t])
    ELSE IF t \in DOMAIN StructTypes THEN Struct(StructTypes[t])
    ELSE IF t \in DOMAIN OptionTypes THEN Option(OptionTypes[t])
    ELSE List(ListTypes[t])

\* the types from_str is called with
RootTypes ==
    {"Config", "CountConfig", "SimpleString", "SimpleInt", "RootConfig",
     "ProcessList", "SimpleProcess", "TripleRoot", "MixedRoot", "VecProcess", "i64"}

FieldIndex(t, name) ==
    LET fs == ShapeOf(t).fields
    IN IF \E i \in 1..Len(fs) : fs[i].name = name
       THEN CHOOSE i \in 1..Len(fs) : fs[i].name = name
       ELSE 0

\* the field names of t and of the types its fields reach
RECURSIVE FieldNames(_)
FieldNames(t) ==
    IF t \in DOMAIN StructTypes
    THEN UNION {{StructTypes[t][i].name} \cup FieldNames(StructTypes[t][i].ty)
                : i \in 1..Len(StructTypes[t])}
    ELSE IF t \in DOMAIN ListTypes THEN FieldNames(ListTypes[t])
    ELSE {}

\* -------------------------------------------------------------- strings
\* str::len is the length in bytes; a char is one code point.  "e-acute" is
\* the one code point U+00E9, two bytes long.

ByteLen(s) ==
    CASE s = "" -> 0
      [] s = "x" -> 1
      [] s = "e-acute" -> 2
      [] s = "42" -> 2
      [] s = "true" -> 4
      [] OTHER -> 5
CodePoints(s) ==
    CASE s = "" -> 0
      [] s = "x" -> 1
      [] s = "e-acute" -> 1
      [] s = "42" -> 2
      [] s = "true" -> 4
      [] OTHER -> 5

CharV(c) == [k |-> "Char", c |-> c]
FloatOfInt(n) == [k |-> "Float", i |-> n]
ParseFailed == [k |-> "ParseFailed"]

\* <kind as FromStr>::from_str(s)
ParseText(kind, s) ==
    CASE kind = "String" -> StrV(s)
      [] kind = "Char" -> IF CodePoints(s) = 1 THEN CharV(s) ELSE ParseFailed
      [] kind = "Bool" -> IF s = "true" THEN BoolV(TRUE) ELSE ParseFailed
      [] kind \in IntKinds -> IF s = "42" THEN IntV(FromNat(42)) ELSE ParseFailed
      [] OTHER -> ParseFailed

\* <kind as Default>::default()
DefaultOf(kind) ==
    CASE kind = "String" -> StrV("")
      [] kind = "Char" -> CharV("")
      [] kind = "Bool" -> BoolV(FALSE)
      [] kind \in IntKinds -> IntV(FromNat(0))
      [] OTHER -> FloatOfInt(FromNat(0))

\* ------------------------------------------- facet_reflect::Partial (`wip`)
\* frames: the cursor, the root frame first; written: path -> value of the
\* scalar fields written; err: the error a `?` is carrying out of from_str;
\* log: every operation called on the Partial, with the frame it met;
\* tok: how much of the document had been read when the operation was called.

NoPartial ==
    [alloc |-> FALSE, frames |-> <<>>, written |-> <<>>, err |-> "none",
     log |-> <<>>, tok |-> 0]
PartialAlloc(t) ==
    [alloc |-> TRUE, frames |-> <<[ty |-> t, path |-> <<>>]>>, written |-> <<>>,
     err |-> "none", log |-> <<>>, tok |-> 0]

Top(b) == b.frames[Len(b.frames)]
TopShape(b) == ShapeOf(Top(b).ty)

Called(b, op, arg, idx, ok) ==
    Append(b.log, [op |-> op, arg |-> arg, idx |-> idx, path |-> Top(b).path,
                   depth |-> Len(b.frames), ok |-> ok, tok |-> b.tok])
Refused(b, op, arg, idx) ==
    [b EXCEPT !.err = "Reflect", !.log = Called(b, op, arg, idx, FALSE)]
Push(b, op, arg, idx, f) ==
    [b EXCEPT !.frames = Append(@, [ty |-> f.ty, path |-> Append(Top(b).path, f.name)]),
              !.log = Called(b, op, arg, idx, TRUE)]
Write(b, op, v) ==
    [b EXCEPT !.written = (Top(b).path :> v) @@ @,
              !.log = Called(b, op, "", -1, TRUE)]

\* Partial::begin_field(name): the field of the current struct with that name
BeginField(b, name) ==
    IF b.err # "none" THEN b
    ELSE IF TopShape(b).ty = "Struct" /\ FieldIndex(Top(b).ty, name) # 0
         THEN Push(b, "begin_field", name, -1, TopShape(b).fields[FieldIndex(Top(b).ty, name)])
         ELSE Refused(b, "begin_field", name, -1)

\* Partial::begin_nth_field(idx): the field of the current struct at that index
BeginNthField(b, idx) ==
    IF b.err # "none" THEN b
    ELSE IF TopShape(b).ty = "Struct" /\ idx < Len(TopShape(b).fields)
         THEN Push(b, "begin_nth_field", "", idx, TopShape(b).fields[idx + 1])
         ELSE Refused(b, "begin_nth_field", "", idx)

\* Partial::end(): pop the current frame; the root frame cannot be popped
End(b) ==
    IF b.err # "none" THEN b
    ELSE IF Len(b.frames) > 1
         THEN [b EXCEPT !.frames = SubSeq(@, 1, Len(@) - 1),
                        !.log = Called(b, "end", "", -1, TRUE)]
         ELSE Refused(b, "end", "", -1)

\* Partial::set(value), value of the Rust type of scalar kind `kind`
Set(b, kind, v) ==
    IF b.err # "none" THEN b
    ELSE IF TopShape(b).scalar = kind THEN Write(b, "set", v)
         ELSE Refused(b, "set", "", -1)

\* Partial::set_default()
SetDefault(b) ==
    IF b.err # "none" THEN b
    ELSE IF TopShape(b).def = "Scalar" THEN Write(b, "set_default", DefaultOf(TopShape(b).scalar))
         ELSE Refused(b, "set_default", "", -1)

\* Partial::parse_from_str(s)
ParseFromStr(b, s) ==
    IF b.err # "none" THEN b
    ELSE IF TopShape(b).def = "Scalar" /\ ParseText(TopShape(b).scalar, s) # ParseFailed
         THEN Write(b, "parse_from_str", ParseText(TopShape(b).scalar, s))
         ELSE Refused(b, "parse_from_str", "", -1)

\* Partial::set_from_function(f), f writing a String through the pointer
SetFromFunction(b, v) ==
    IF b.err # "none" THEN b ELSE Write(b, "set_from_function", v)

\* the paths of the fields build() needs written
RECURSIVE RequiredLeaves(_)
RequiredLeaves(t) ==
    IF t \in DOMAIN StructTypes
    THEN UNION {IF ~StructTypes[t][i].required THEN {}
                ELSE {<<StructTypes[t][i].name>> \o p : p \in RequiredLeaves(StructTypes[t][i].ty)}
                : i \in 1..Len(StructTypes[t])}
    ELSE {<<>>}
Missing(b) == {p \in RequiredLeaves(b.frames[1].ty) : p \notin DOMAIN b.written}

\* the fields of the root struct with a required part unwritten, and the
\* first of them in declaration order: the one field a failing build() names
MissingFields(b) == {p[1] : p \in Missing(b)}
FirstMissing(b) ==
    LET fs == StructTypes[b.frames[1].ty]
        first == CHOOSE i \in 1..Len(fs) :
                    /\ fs[i].name \in MissingFields(b)
                    /\ \A j \in 1..(i - 1) : fs[j].name \notin MissingFields(b)
    IN fs[first].name

\* Partial::build(): only at the root frame, with no required field missing
Build(b) ==
    IF b.err # "none" THEN b
    ELSE IF Len(b.frames) = 1 /\ Missing(b) = {}
         THEN [b EXCEPT !.log = Called(b, "build", "", -1, TRUE)]
         ELSE IF Len(b.frames) = 1
              THEN Refused(b, "build", FirstMissing(b), -1)
              ELSE Refused(b, "build", "", -1)

\* `if wip.op(..).is_ok()`: the error of a refused operation is dropped
IsOk(b) == b.err = "none"
Dropped(b) == [b EXCEPT !.err = "none"]

\* ----------------------------------------------- KdlDeserializer (lib.rs)

\* Err(KdlError::from(kind)) returned without a call on the Partial
Raise(b, kind) == IF b.err # "none" THEN b ELSE [b EXCEPT !.err = kind]

\* no guard on the integer arms: the `as` cast wraps
IntGuardNone(kind, n) == TRUE

\* the guard of the integer arm of `kind`: `*n >= MIN as i128 && *n <= MAX as
\* i128`, `*n >= 0 && *n <= MAX as i128`, `*n >= 0` for u128, none for i128
IntGuard(kind, n) ==
    CASE kind = "I128" -> TRUE
      [] kind = "U128" -> SLe(FromNat(0), n)
      [] kind \in SignedKinds -> SLe(MinOf(kind), n) /\ SLe(n, MaxOf(kind))
      [] OTHER -> SLe(FromNat(0), n) /\ SLe(n, MaxOf(kind))

\* wip.set(*n as iW), wip.set(*n as uW)
SetInt(b, kind, n) == Set(b, kind, IntV(AsCast(n, Bits(kind), kind \in SignedKinds)))

\* deserialize_scalar_value without the arm `(_, KdlValue::Null)`
deserialize_scalar_value_no_null(b, value) ==
    LET scalar_type == TopShape(b).scalar
    IN IF b.err # "none" THEN b
       ELSE IF scalar_type = "none" THEN Raise(b, "Reflect")
       ELSE
       CASE scalar_type \in {"String", "CowStr"} /\ value.k = "String" ->
                Set(b, scalar_type, StrV(value.s))
         [] scalar_type = "Bool" /\ value.k = "Bool" ->
                Set(b, scalar_type, BoolV(value.b))
         [] scalar_type \in IntKinds /\ value.k = "Integer" /\ IntGuard(scalar_type, value.n) ->
                SetInt(b, scalar_type, value.n)
         [] scalar_type \in {"F32", "F64"} /\ value.k = "Float" ->
                Set(b, scalar_type, FloatV(value.f))
         [] scalar_type \in {"F32", "F64"} /\ value.k = "Integer" ->
                Set(b, scalar_type, FloatOfInt(value.n))
         [] scalar_type = "Char" /\ value.k = "String" /\ ByteLen(value.s) = 1 ->
                Set(b, scalar_type, CharV(value.s))
         [] OTHER ->
                IF value.k = "String" THEN ParseFromStr(b, value.s)
                ELSE Raise(b, "Reflect")

\* deserialize_scalar_value without the arm `(_, KdlValue::String(s))`
deserialize_scalar_value_no_parse(b, value) ==
    LET scalar_type == TopShape(b).scalar
    IN IF b.err # "none" THEN b
       ELSE IF scalar_type = "none" THEN Raise(b, "Reflect")
       ELSE
       CASE scalar_type \in {"String", "CowStr"} /\ value.k = "String" ->
                Set(b, scalar_type, StrV(value.s))
         [] scalar_type = "Bool" /\ value.k = "Bool" ->
                Set(b, scalar_type, BoolV(value.b))
         [] scalar_type \in IntKinds /\ value.k = "Integer" /\ IntGuard(scalar_type, value.n) ->
                SetInt(b, scalar_type, value.n)
         [] scalar_type \in {"F32", "F64"} /\ value.k = "Float" ->
                Set(b, scalar_type, FloatV(value.f))
         [] scalar_type \in {"F32", "F64"} /\ value.k = "Integer" ->
                Set(b, scalar_type, FloatOfInt(value.n))
         [] scalar_type = "Char" /\ value.k = "String" /\ ByteLen(value.s) = 1 ->
                Set(b, scalar_type, CharV(value.s))
         [] OTHER ->
                IF value.k = "Null" THEN SetDefault(b)
                ELSE Raise(b, "Reflect")

\* deserialize_scalar_value: the match on (scalar_type, value), arm by arm
deserialize_scalar_value(b, value) ==
    LET scalar_type == TopShape(b).scalar
    IN IF b.err # "none" THEN b
       ELSE IF scalar_type = "none" THEN Raise(b, "Reflect")
       ELSE
       CASE scalar_type \in {"String", "CowStr"} /\ value.k = "String" ->
                Set(b, scalar_type, StrV(value.s))
         [] scalar_type = "Bool" /\ value.k = "Bool" ->
                Set(b, scalar_type, BoolV(value.b))
         [] scalar_type \in IntKinds /\ value.k = "Integer" /\ IntGuard(scalar_type, value.n) ->
                SetInt(b, scalar_type, value.n)
         [] scalar_type \in {"F32", "F64"} /\ value.k = "Float" ->
                Set(b, scalar_type, FloatV(value.f))
         [] scalar_type \in {"F32", "F64"} /\ value.k = "Integer" ->
                Set(b, scalar_type, FloatOfInt(value.n))
         [] scalar_type = "Char" /\ value.k = "String" /\ ByteLen(value.s) = 1 ->
                Set(b, scalar_type, CharV(value.s))
         [] OTHER ->
                IF value.k = "Null" THEN SetDefault(b)
                ELSE IF value.k = "String" THEN ParseFromStr(b, value.s)
                ELSE Raise(b, "Reflect")

\* deserialize_value: the match on the shape's def
deserialize_value(b, value) ==
    IF b.err # "none" THEN b
    ELSE
    CASE TopShape(b).def = "Scalar" -> deserialize_scalar_value(b, value)
      [] TopShape(b).def = "Undefined" ->
            IF value.k = "String"
            THEN IF Top(b).ty = "String"
                 THEN SetFromFunction(b, StrV(value.s))
                 ELSE LET direct == Set(b, "String", StrV(value.s))
                          parsed == ParseFromStr(Dropped(direct), value.s)
                      IN IF IsOk(direct) THEN direct
                         ELSE IF IsOk(parsed) THEN parsed
                         ELSE Raise(Dropped(parsed), "InvalidDocumentShape")
            ELSE Raise(b, "InvalidDocumentShape")
      [] OTHER -> Raise(b, "InvalidDocumentShape")

\* deserialize_property with an end() after the write
deserialize_property_end(b, name, value) ==
    LET entered == BeginField(b, name)
    IN IF ~IsOk(entered) THEN entered
       ELSE IF Top(entered).ty = "String" /\ TopShape(entered).def = "Scalar"
               /\ value.k = "String"
            THEN End(ParseFromStr(entered, value.s))
            ELSE End(deserialize_value(entered, value))

\* deserialize_property: begin_field(name), then the value; no end()
deserialize_property(b, name, value) ==
    LET entered == BeginField(b, name)
    IN IF ~IsOk(entered) THEN entered
       ELSE IF Top(entered).ty = "String" /\ TopShape(entered).def = "Scalar"
               /\ value.k = "String"
            THEN ParseFromStr(entered, value.s)
            ELSE deserialize_value(entered, value)

\* an unnamed entry of a node entered with begin_field: begin_nth_field(
\* arg_index), the value, end()
deserialize_argument(b, arg_index, value) ==
    End(deserialize_value(BeginNthField(b, arg_index), value))

\* one entry of the entries loop of deserialize_node's child branch and of
\* deserialize_children
deserialize_entry(b, arg_index, entry) ==
    IF entry.name = NoName
    THEN deserialize_argument(b, arg_index, entry.value)
    ELSE deserialize_property(b, entry.name, entry.value)

\* one entry of the entries loop of deserialize_node's no-children branch
deserialize_root_entry(b, node_name, entry) ==
    IF entry.name # NoName
    THEN deserialize_property(b, entry.name, entry.value)
    ELSE deserialize_property(b, node_name, entry.value)

\* --------------------------------------------------- KdlSerializer (serialize.rs)
\* An Option is a sequence of length 0 (None) or 1 (Some).

KdlNodeNew(name) == [name |-> name, entries |-> <<>>, children |-> <<>>]

\* KdlSerializer::new
KdlSerializerNew ==
    [document |-> <<>>, current_node |-> <<>>, node_stack |-> <<>>,
     current_key |-> <<>>, err |-> "none"]

\* a scalar method that pushes nothing
PushEntryLost(s, v) == s

\* a scalar method that opens a node of its own when there is none
PushEntryOwnNode(s, v) ==
    IF s.err # "none" THEN s
    ELSE IF s.current_node = <<>>
    THEN [s EXCEPT !.document = Append(@, [KdlNodeNew("value") EXCEPT
                                              !.entries = <<[name |-> NoName, value |-> v]>>])]
    ELSE [s EXCEPT !.current_node[1].entries =
                       Append(@, [name |-> IF s.current_key # <<>> THEN s.current_key[1] ELSE NoName,
                                  value |-> v]),
                   !.current_key = <<>>]

\* the body shared by serialize_bool, _i64, _i128, _f64, _str and _none: with
\* a current node, push a property named by the pending key, which is taken,
\* or an argument when no key is pending
PushEntry(s, v) ==
    IF s.err # "none" \/ s.current_node = <<>> THEN s
    ELSE [s EXCEPT !.current_node[1].entries =
                       Append(@, [name |-> IF s.current_key # <<>> THEN s.current_key[1] ELSE NoName,
                                  value |-> v]),
                   !.current_key = <<>>]
SerErr(s, msg) == IF s.err # "none" THEN s ELSE [s EXCEPT !.err = msg]

serialize_bool(s, v) == PushEntry(s, BoolV(v))
serialize_i128(s, n) == PushEntry(s, IntV(n))
\* v as i128 of an i64
serialize_i64(s, n) == PushEntry(s, IntV(AsCast(n, 64, TRUE)))
\* v as i64 of an i8, i16, i32
serialize_i8(s, n) == serialize_i64(s, AsCast(n, 8, TRUE))
serialize_i16(s, n) == serialize_i64(s, AsCast(n, 16, TRUE))
serialize_i32(s, n) == serialize_i64(s, AsCast(n, 32, TRUE))
\* `v > i128::MAX as u64`, then v as i128
serialize_u64(s, n) ==
    IF ULess(AsCast(Ones(127), 64, FALSE), n) THEN SerErr(s, "u64 too large")
    ELSE serialize_i128(s, AsCast(n, 64, FALSE))
serialize_u8(s, n) == serialize_u64(s, AsCast(n, 8, FALSE))
serialize_u16(s, n) == serialize_u64(s, AsCast(n, 16, FALSE))
serialize_u32(s, n) == serialize_u64(s, AsCast(n, 32, FALSE))
\* serialize_u128 without its guard
serialize_u128_unchecked(s, n) == serialize_i128(s, n)
\* `v > i128::MAX as u128`, then v as i128: n is the u128's bit pattern
serialize_u128(s, n) ==
    IF ULess(Ones(127), n) THEN SerErr(s, "u128 too large")
    ELSE serialize_i128(s, n)
serialize_f64(s, f) == PushEntry(s, FloatV(f))
serialize_str(s, v) == PushEntry(s, StrV(v))
serialize_char(s, c) == serialize_str(s, c)
serialize_bytes(s) == SerErr(s, "Byte arrays not supported in KDL")
serialize_none(s) == PushEntry(s, NullV)
start_some(s) == s
serialize_unit(s) == s
start_object(s) == s
\* serialize_field_name keeping a key that is still pending
serialize_field_name_first(s, name) ==
    IF s.err # "none" \/ s.current_key # <<>> THEN s ELSE [s EXCEPT !.current_key = <<name>>]
serialize_field_name(s, name) == IF s.err # "none" THEN s ELSE [s EXCEPT !.current_key = <<name>>]
start_array(s) == s
start_map(s) == s
serialize_unit_variant(s, variant) == serialize_str(s, variant)

\* facet_serialize's traversal of a value of type t: a struct is start_object
\* and, field by field in declaration order, serialize_field_name and the
\* field's value; a scalar is the serialize_* of its kind.  v gives the
\* scalar at each path of the value.
SerializeScalar(s, kind, x) ==
    CASE kind = "String" -> serialize_str(s, x.s)
      [] kind = "Char" -> serialize_char(s, x.c)
      [] kind = "Bool" -> serialize_bool(s, x.b)
      [] kind = "I8" -> serialize_i8(s, x.n)
      [] kind = "I16" -> serialize_i16(s, x.n)
      [] kind = "I32" -> serialize_i32(s, x.n)
      [] kind \in {"I64", "ISize"} -> serialize_i64(s, x.n)
      [] kind = "I128" -> serialize_i128(s, x.n)
      [] kind = "U8" -> serialize_u8(s, x.n)
      [] kind = "U16" -> serialize_u16(s, x.n)
      [] kind = "U32" -> serialize_u32(s, x.n)
      [] kind \in {"U64", "USize"} -> serialize_u64(s, x.n)
      [] kind = "U128" -> serialize_u128(s, x.n)
      [] OTHER -> serialize_f64(s, x.f)

RECURSIVE SerializeFrom(_, _, _, _, _)
SerializeValue(s, t, v, path) ==
    IF t \in DOMAIN StructTypes THEN SerializeFrom(start_object(s), t, v, path, 1)
    ELSE SerializeScalar(s, ScalarTypes[t], v[path])
SerializeFrom(s, t, v, path, i) ==
    IF i > Len(StructTypes[t]) THEN s
    ELSE LET f == StructTypes[t][i]
         IN SerializeFrom(SerializeValue(serialize_field_name(s, f.name), f.ty, v,
                                         Append(path, f.name)),
                          t, v, path, i + 1)

\* to_string: the serializer with a current node "root", the traversal, and
\* the root node pushed to the document
to_string(t, v) ==
    LET begun == [KdlSerializerNew EXCEPT !.current_node = <<KdlNodeNew("root")>>]
        s == SerializeValue(begun, t, v, <<>>)
    IN IF s.err # "none" THEN s
       ELSE IF s.current_node # <<>>
            THEN [s EXCEPT !.document = Append(@, s.current_node[1]), !.current_node = <<>>]
            ELSE s

\* ------------------------------------------------ the document being read
\* doc: what the loops of the deserializer have read so far, as the events of
\* a walk of the document tree.  A node is read with its name and its form,
\* which is what the code looks at before it reads the entries: "flat" (no
\* children block, at least one entry), "bare" (no children block, no entry)
\* or "block" (a children block).  Entries and nodes are then read one by
\* one, and the end of a list is read as the iterator's None.

Parsed == [t |-> "doc"]
NodeToken(name, form, depth) == [t |-> "node", name |-> name, form |-> form, depth |-> depth]
EntryToken(e) == [t |-> "entry", name |-> e.name, value |-> e.value]
EndNode == [t |-> "end_node"]
EndBlock == [t |-> "end_block"]
EndDoc == [t |-> "end_doc"]

NodeNames == FieldNames(shape) \cup {"root"}
Values == {StrV("hello"), IntV(FromNat(42)), BoolV(TRUE)}
Entries == [name : NodeNames \cup {NoName}, value : Values]
\* how many nodes and entries have been read
Size(d) == Cardinality({i \in 1..Len(d) : d[i].t \in {"node", "entry"}})
\* a node of that form can follow: a flat node has an entry
Forms == {form \in {"flat", "bare", "block"} :
            Size(doc) + (IF form = "flat" THEN 2 ELSE 1) <= MaxTokens}

\* ------------------------------------------------------------- call stack
\* One frame per running deserialize_node / deserialize_children: the loop it
\* is in (at), the node it is at (name, form), how many nodes of its list and
\* entries of its node it has read, and its arg_index.

Frame(fn, depth) ==
    [fn |-> fn, at |-> "loop", name |-> "", form |-> "", nodes |-> 0, read |-> 0,
     arg_index |-> 0, depth |-> depth]
Cur == ctl[Len(ctl)]
SetCur(f) == [ctl EXCEPT ![Len(ctl)] = f]
Walking(fn, at) == pc = "walk" /\ ctl # <<>> /\ Cur.fn = fn /\ Cur.at = at
\* the entries of the current node are read
EntriesDone == IF Cur.form = "flat" THEN Cur.read >= 1 ELSE TRUE
EntriesLeft == Size(doc) < MaxTokens /\ Cur.form # "bare"

\* the Partial as the next operation meets it, and what a `?` does with it
Now(d) == [wip EXCEPT !.tok = Len(d)]
ContinueAnyway(b, stack) ==
    /\ wip' = b
    /\ pc' = "walk"
    /\ ctl' = stack
Continue(b, stack) ==
    \E r \in {b} :
        /\ wip' = r
        /\ pc' = IF IsOk(r) THEN "walk" ELSE "err"
        /\ ctl' = IF IsOk(r) THEN stack ELSE <<>>

Init ==
    /\ shape \in RootTypes
    /\ pc = "start"
    /\ ctl = <<>>
    /\ wip = NoPartial
    /\ doc = <<>>
    /\ ser = KdlSerializerNew
    /\ val = NoValue
    /\ calls = <<>>

\* from_str, lines 371-391, and deserialize_document: the text parses or not;
\* the Partial is allocated; a struct root goes to deserialize_node, any
\* other root to todo!()
FromStr ==
    /\ pc = "start"
    /\ \/ /\ pc' = "err"
          /\ wip' = [wip EXCEPT !.err = "Parse"]
          /\ ctl' = ctl
          /\ doc' = doc
       \/ /\ wip' = PartialAlloc(shape)
          /\ doc' = <<Parsed>>
          /\ IF ShapeOf(shape).ty = "Struct"
             THEN pc' = "walk" /\ ctl' = <<Frame("node", 0)>>
             ELSE pc' = "panic" /\ ctl' = <<>>
    /\ UNCHANGED <<shape, ser, val, calls>>

\* the entry of a node frame on reading a node
AtNode(name, form, at) ==
    [Cur EXCEPT !.nodes = @ + 1, !.at = at, !.name = name, !.form = form,
                !.read = 0, !.arg_index = 0]
\* the entry of a frame on reading an entry of its node
AtEntry(e) ==
    [Cur EXCEPT !.read = @ + 1, !.arg_index = IF e.name = NoName THEN @ + 1 ELSE @]

\* deserialize_node, lines 429-451: the next top-level node; a node without
\* children block and with entries takes the property branch, any other node
\* is entered with begin_field(node name)
NodeBegin ==
    /\ Walking("node", "loop")
    /\ \E name \in NodeNames, form \in Forms :
         LET d == Append(doc, NodeToken(name, form, 0))
         IN /\ doc' = d
            /\ IF form = "flat"
               THEN Continue(Now(d), SetCur(AtNode(name, form, "flat")))
               ELSE Continue(BeginField(Now(d), name), SetCur(AtNode(name, form, "entries")))
    /\ UNCHANGED <<shape, ser, val, calls>>

\* deserialize_node, lines 435-443: one entry of a node without children block
RootEntry ==
    /\ Walking("node", "flat")
    /\ EntriesLeft
    /\ \E e \in Entries :
         LET d == Append(doc, EntryToken(e))
         IN /\ doc' = d
            /\ Continue(deserialize_root_entry(Now(d), Cur.name, e), SetCur(AtEntry(e)))
    /\ UNCHANGED <<shape, ser, val, calls>>

\* the entries loop running its body twice on an entry
NodeEntryTwice ==
    /\ Walking("node", "entries")
    /\ EntriesLeft
    /\ \E e \in Entries :
         LET d == Append(doc, EntryToken(e))
         IN /\ doc' = d
            /\ Continue(deserialize_entry(deserialize_entry(Now(d), Cur.arg_index, e),
                                          Cur.arg_index, e),
                        SetCur(AtEntry(e)))
    /\ UNCHANGED <<shape, ser, val, calls>>

\* deserialize_node, lines 455-472: one entry of a node entered with begin_field
NodeEntry ==
    /\ Walking("node", "entries")
    /\ EntriesLeft
    /\ \E e \in Entries :
         LET d == Append(doc, EntryToken(e))
         IN /\ doc' = d
            /\ Continue(deserialize_entry(Now(d), Cur.arg_index, e), SetCur(AtEntry(e)))
    /\ UNCHANGED <<shape, ser, val, calls>>

\* deserialize_node, lines 476-478: the children block of the node
NodeChildren ==
    /\ Walking("node", "entries")
    /\ EntriesDone /\ Cur.form = "block"
    /\ ctl' = Append(SetCur([Cur EXCEPT !.at = "end"]), Frame("children", 1))
    /\ UNCHANGED <<shape, pc, wip, doc, ser, val, calls>>

\* deserialize_node, line 481: wip.end() once the node is done
NodeEnd ==
    /\ pc = "walk" /\ ctl # <<>> /\ Cur.fn = "node"
    /\ \/ Cur.at \in {"flat", "entries"} /\ EntriesDone /\ Cur.form # "block"
       \/ Cur.at = "end"
    /\ doc' = Append(doc, EndNode)
    /\ Continue(End(Now(doc')), SetCur([Cur EXCEPT !.at = "loop"]))
    /\ UNCHANGED <<shape, ser, val, calls>>

\* deserialize_children, lines 341-348: the next node of a children block
ChildBegin ==
    /\ Walking("children", "loop")
    /\ \E name \in NodeNames, form \in Forms :
         LET d == Append(doc, NodeToken(name, form, Cur.depth))
         IN /\ doc' = d
            /\ Continue(BeginField(Now(d), name), SetCur(AtNode(name, form, "entries")))
    /\ UNCHANGED <<shape, ser, val, calls>>

\* deserialize_children, lines 349-358: one entry of a child node
ChildEntry ==
    /\ Walking("children", "entries")
    /\ EntriesLeft
    /\ \E e \in Entries :
         LET d == Append(doc, EntryToken(e))
         IN /\ doc' = d
            /\ Continue(deserialize_entry(Now(d), Cur.arg_index, e), SetCur(AtEntry(e)))
    /\ UNCHANGED <<shape, ser, val, calls>>

\* deserialize_children, lines 361-363: the children block of a child node
ChildNested ==
    /\ Walking("children", "entries")
    /\ EntriesDone /\ Cur.form = "block"
    /\ ctl' = Append(SetCur([Cur EXCEPT !.at = "end"]), Frame("children", Cur.depth + 1))
    /\ UNCHANGED <<shape, pc, wip, doc, ser, val, calls>>

\* deserialize_children, line 365: wip.end() once the child node is done
ChildEnd ==
    /\ pc = "walk" /\ ctl # <<>> /\ Cur.fn = "children"
    /\ \/ Cur.at = "entries" /\ EntriesDone /\ Cur.form # "block"
       \/ Cur.at = "end"
    /\ doc' = Append(doc, EndNode)
    /\ Continue(End(Now(doc')), SetCur([Cur EXCEPT !.at = "loop"]))
    /\ UNCHANGED <<shape, ser, val, calls>>

\* deserialize_children, line 368: the block is read, back to the caller
ChildrenReturn ==
    /\ Walking("children", "loop")
    /\ ctl' = SubSeq(ctl, 1, Len(ctl) - 1)
    /\ doc' = Append(doc, EndBlock)
    /\ UNCHANGED <<shape, pc, wip, ser, val, calls>>

\* from_str returning the walked Partial without build()
FinishUnbuilt ==
    /\ Walking("node", "loop")
    /\ doc' = Append(doc, EndDoc)
    /\ wip' = Now(doc')
    /\ pc' = "ok"
    /\ ctl' = <<>>
    /\ UNCHANGED <<shape, ser, val, calls>>

\* deserialize_node, line 484, and from_str, lines 393-397: every node is
\* read; build() gives the value or the error
Finish ==
    /\ Walking("node", "loop")
    /\ doc' = Append(doc, EndDoc)
    /\ wip' = Build(Now(doc'))
    /\ pc' = IF IsOk(wip') THEN "ok" ELSE "err"
    /\ ctl' = <<>>
    /\ UNCHANGED <<shape, ser, val, calls>>

Next ==
    \/ FromStr
    \/ NodeBegin \/ RootEntry \/ NodeEntry \/ NodeChildren \/ NodeEnd
    \/ ChildBegin \/ ChildEntry \/ ChildNested \/ ChildEnd \/ ChildrenReturn
    \/ Finish

Spec == Init /\ [][Next]_vars

\* from_str is one call that runs without yielding: a step that can be taken
\* is taken
WalkRoots == {"Config"}
WalkInit == Init /\ shape \in WalkRoots
FairSpec == WalkInit /\ [][Next]_vars /\ WF_vars(Next)

\* ------------------------------------------ from_str of `field value`
\* The walk of the documents of one top-level node without children block
\* and with one entry, against a struct with a field of every scalar kind:
\* every arm of deserialize_scalar_value, at the values where its guard turns.

\* the integers at and around the ends of every width
Boundary ==
    UNION {{MinOf(k), MaxOf(k)} \cup (IF Bits(k) < 128 THEN {Dec(MinOf(k)), Inc(MaxOf(k))} ELSE {})
           : k \in IntKinds}
    \cup {FromInt(0), FromInt(-1), FromNat(42), FromNat(255), FromNat(256), FromInt(-129)}
BoundaryValues ==
    {IntV(n) : n \in Boundary}
    \cup {StrV(s) : s \in {"", "x", "e-acute", "42", "true", "hello"}}
    \cup {BoolV(TRUE), BoolV(FALSE), NullV, FloatV("1.5")}
ScalarNames == {StructTypes.Scalars[i].name : i \in 1..Len(StructTypes.Scalars)}

\* from_str has parsed the text and deserialize_node has read the node
CoerceInit ==
    /\ shape = "Scalars"
    /\ pc = "walk"
    /\ \E name \in ScalarNames :
         /\ doc = <<Parsed, NodeToken(name, "flat", 0)>>
         /\ ctl = <<[Frame("node", 0) EXCEPT !.nodes = 1, !.at = "flat", !.name = name,
                                             !.form = "flat"]>>
    /\ wip = PartialAlloc("Scalars")
    /\ ser = KdlSerializerNew
    /\ val = NoValue
    /\ calls = <<>>

\* deserialize_node, lines 435-443: the entry of the node
CoerceEntry ==
    /\ Walking("node", "flat")
    /\ Cur.read = 0
    /\ \E e \in [name : ScalarNames \cup {NoName}, value : BoundaryValues] :
         LET d == Append(doc, EntryToken(e))
         IN /\ doc' = d
            /\ Continue(deserialize_root_entry(Now(d), Cur.name, e), SetCur(AtEntry(e)))
    /\ UNCHANGED <<shape, ser, val, calls>>

CoerceNext == CoerceEntry \/ NodeEnd \/ Finish

CoerceSpec == CoerceInit /\ [][CoerceNext]_vars

\* ------------------------------------------------------------ to_string
\* to_string(&value): the serializer is given the current node `root`,
\* facet_serialize walks the value and calls the Serializer methods one by
\* one, and the current node is pushed to the document.

\* the types to_string is called with
SerTypes == {"SimpleProcess", "RootConfig", "OptionalConfig", "ArgsConfig", "i64"}

\* the values of a type: a scalar, a struct as a function of its field names,
\* an Option as a sequence of length 0 or 1, a Vec as a sequence
RECURSIVE SerValues(_)
RECURSIVE StructValues(_, _)
SerValues(t) ==
    IF t \in DOMAIN StructTypes THEN StructValues(t, Len(StructTypes[t]))
    ELSE IF t \in DOMAIN OptionTypes
    THEN {<<>>} \cup {<<x>> : x \in SerValues(OptionTypes[t])}
    ELSE IF t \in DOMAIN ListTypes
    THEN UNION {[1..n -> SerValues(ListTypes[t])] : n \in 0..MaxElems}
    ELSE CASE ScalarTypes[t] = "String" -> {StrV("hello"), StrV("x")}
           [] ScalarTypes[t] = "Bool" -> {BoolV(TRUE), BoolV(FALSE)}
           [] ScalarTypes[t] \in SignedKinds -> {IntV(FromNat(42)), IntV(FromInt(-1))}
           [] OTHER -> {IntV(FromNat(42))}
StructValues(t, i) ==
    IF i = 0 THEN {<<>>}
    ELSE {(StructTypes[t][i].name :> x) @@ f :
             x \in SerValues(StructTypes[t][i].ty), f \in StructValues(t, i - 1)}

\* a call of a Serializer method
SerCall(op, arg) == [op |-> op, arg |-> arg]
\* the method facet_serialize calls for a scalar of the kind
ScalarOp(kind) ==
    CASE kind = "String" -> "serialize_str"
      [] kind = "Char" -> "serialize_char"
      [] kind = "Bool" -> "serialize_bool"
      [] kind = "I8" -> "serialize_i8"
      [] kind = "I16" -> "serialize_i16"
      [] kind = "I32" -> "serialize_i32"
      [] kind \in {"I64", "ISize"} -> "serialize_i64"
      [] kind = "I128" -> "serialize_i128"
      [] kind = "U8" -> "serialize_u8"
      [] kind = "U16" -> "serialize_u16"
      [] kind = "U32" -> "serialize_u32"
      [] kind \in {"U64", "USize"} -> "serialize_u64"
      [] kind = "U128" -> "serialize_u128"
      [] OTHER -> "serialize_f64"
ScalarOps == {ScalarOp(ScalarTypes[t]) : t \in DOMAIN ScalarTypes} \cup {"serialize_none", "serialize_bytes"}
OpenOps == {"start_object", "end_object", "start_array", "end_array", "start_map", "start_some",
            "serialize_unit"}

\* the calls facet_serialize makes for a value x of type t, in order
RECURSIVE Traverse(_, _)
RECURSIVE TraverseFields(_, _, _)
RECURSIVE TraverseItems(_, _, _)
Traverse(t, x) ==
    IF t \in DOMAIN StructTypes
    THEN <<SerCall("start_object", "")>> \o TraverseFields(t, x, 1) \o <<SerCall("end_object", "")>>
    ELSE IF t \in DOMAIN OptionTypes
    THEN IF x = <<>> THEN <<SerCall("serialize_none", "")>>
         ELSE <<SerCall("start_some", "")>> \o Traverse(OptionTypes[t], x[1])
    ELSE IF t \in DOMAIN ListTypes
    THEN <<SerCall("start_array", "")>> \o TraverseItems(ListTypes[t], x, 1)
         \o <<SerCall("end_array", "")>>
    ELSE <<SerCall(ScalarOp(ScalarTypes[t]), x)>>
TraverseFields(t, x, i) ==
    IF i > Len(StructTypes[t]) THEN <<>>
    ELSE LET f == StructTypes[t][i]
         IN <<SerCall("serialize_field_name", f.name)>> \o Traverse(f.ty, x[f.name])
            \o TraverseFields(t, x, i + 1)
TraverseItems(t, x, i) ==
    IF i > Len(x) THEN <<>> ELSE Traverse(t, x[i]) \o TraverseItems(t, x, i + 1)

\* the method of KdlSerializer that a call runs; end_object and end_array are
\* the trait's defaults, which KdlSerializer does not override
Call(s, c) ==
    CASE c.op = "serialize_str" -> serialize_str(s, c.arg.s)
      [] c.op = "serialize_char" -> serialize_char(s, c.arg.c)
      [] c.op = "serialize_bool" -> serialize_bool(s, c.arg.b)
      [] c.op = "serialize_i8" -> serialize_i8(s, c.arg.n)
      [] c.op = "serialize_i16" -> serialize_i16(s, c.arg.n)
      [] c.op = "serialize_i32" -> serialize_i32(s, c.arg.n)
      [] c.op = "serialize_i64" -> serialize_i64(s, c.arg.n)
      [] c.op = "serialize_i128" -> serialize_i128(s, c.arg.n)
      [] c.op = "serialize_u8" -> serialize_u8(s, c.arg.n)
      [] c.op = "serialize_u16" -> serialize_u16(s, c.arg.n)
      [] c.op = "serialize_u32" -> serialize_u32(s, c.arg.n)
      [] c.op = "serialize_u64" -> serialize_u64(s, c.arg.n)
      [] c.op = "serialize_u128" -> serialize_u128(s, c.arg.n)
      [] c.op = "serialize_f64" -> serialize_f64(s, c.arg.f)
      [] c.op = "serialize_bytes" -> serialize_bytes(s)
      [] c.op = "serialize_none" -> serialize_none(s)
      [] c.op = "start_some" -> start_some(s)
      [] c.op = "serialize_unit" -> serialize_unit(s)
      [] c.op = "start_object" -> start_object(s)
      [] c.op = "serialize_field_name" -> serialize_field_name(s, c.arg)
      [] c.op = "start_array" -> start_array(s)
      [] c.op = "start_map" -> start_map(s)
      [] c.op = "serialize_unit_variant" -> serialize_unit_variant(s, c.arg)
      [] OTHER -> s

SerInit ==
    /\ shape \in SerTypes
    /\ val \in SerValues(shape)
    /\ pc = "to_string"
    /\ ser = KdlSerializerNew
    /\ ctl = <<>>
    /\ calls = <<>>
    /\ wip = NoPartial
    /\ doc = <<>>

\* to_string, lines 244-247: the serializer, its current node `root`, and
\* the calls value.serialize is going to make
ToStringBegin ==
    /\ pc = "to_string"
    /\ ser' = [KdlSerializerNew EXCEPT !.current_node = <<KdlNodeNew("root")>>]
    /\ ctl' = Traverse(shape, val)
    /\ pc' = "serialize"
    /\ UNCHANGED <<shape, wip, doc, val, calls>>

\* the next call of value.serialize; an Err ends to_string (the `?`, line 247)
Pending(ops) == pc = "serialize" /\ ctl # <<>> /\ Head(ctl).op \in ops
Issue ==
    /\ ser' = Call(ser, Head(ctl))
    /\ calls' = Append(calls, Head(ctl))
    /\ IF ser'.err # "none" THEN pc' = "err" /\ ctl' = <<>>
       ELSE pc' = pc /\ ctl' = Tail(ctl)

\* start_object, start_array, start_some and the trait's end_* defaults
SerializeOpen ==
    /\ Pending(OpenOps)
    /\ Issue
    /\ UNCHANGED <<shape, wip, doc, val>>

\* serialize_field_name
SerializeFieldName ==
    /\ Pending({"serialize_field_name"})
    /\ Issue
    /\ UNCHANGED <<shape, wip, doc, val>>

\* serialize_bool, the integers, serialize_str, serialize_none, ...
SerializeScalarValue ==
    /\ Pending(ScalarOps)
    /\ Issue
    /\ UNCHANGED <<shape, wip, doc, val>>

\* to_string, lines 250-254: the current node is taken and pushed
ToStringReturn ==
    /\ pc = "serialize" /\ ctl = <<>>
    /\ ser' = IF ser.current_node # <<>>
              THEN [ser EXCEPT !.document = Append(@, ser.current_node[1]),
                               !.current_node = <<>>]
              ELSE ser
    /\ pc' = "returned"
    /\ UNCHANGED <<shape, ctl, wip, doc, val, calls>>

SerNext == ToStringBegin \/ SerializeOpen \/ SerializeFieldName \/ SerializeScalarValue \/ ToStringReturn

SerSpec == SerInit /\ [][SerNext]_vars

\* ------------------------------------------------- the Serializer's methods
\* KdlSerializer is public and so are the methods of its Serializer impl: any
\* caller may call them in any order, on the serializer KdlSerializer::new
\* returns or, as facet_serialize does under to_string, on one whose current
\* node is `root`.  An Err is propagated by the caller's `?`.

\* the unsigned values at which the casts and the guards turn, by method
UnsignedArgs ==
    [serialize_u8 |-> {FromNat(0), MaxOf("U8")},
     serialize_u16 |-> {MaxOf("U16")},
     serialize_u32 |-> {MaxOf("U32")},
     serialize_u64 |-> {FromNat(42), Inc(MaxOf("I64")), MaxOf("U64")},
     serialize_u128 |-> {Inc(MaxOf("U64")), MaxOf("I128"), Inc(MaxOf("I128")), MaxOf("U128")}]
SignedArgs ==
    [serialize_i8 |-> {FromInt(-1)},
     serialize_i16 |-> {FromInt(-1)},
     serialize_i32 |-> {FromInt(-1)},
     serialize_i64 |-> {FromInt(-1)},
     serialize_i128 |-> {MinOf("I128")}]
UnsignedCalls == UNION {{SerCall(op, IntV(n)) : n \in UnsignedArgs[op]} : op \in DOMAIN UnsignedArgs}
SignedCalls == UNION {{SerCall(op, IntV(n)) : n \in SignedArgs[op]} : op \in DOMAIN SignedArgs}
TextCalls ==
    {SerCall("serialize_str", StrV("hello")), SerCall("serialize_char", CharV("x")),
     SerCall("serialize_unit_variant", "Unit")}
OtherScalarCalls ==
    {SerCall("serialize_bool", BoolV(TRUE)), SerCall("serialize_f64", FloatV("1.5")),
     SerCall("serialize_none", ""), SerCall("serialize_bytes", "")}
FieldNameCalls == {SerCall("serialize_field_name", name) : name \in {"a", "b"}}
OpenCalls == {SerCall(op, "") : op \in OpenOps}

CallInit ==
    /\ shape = "i64"
    /\ val = NoValue
    /\ pc = "calls"
    /\ ser \in {KdlSerializerNew, [KdlSerializerNew EXCEPT !.current_node = <<KdlNodeNew("root")>>]}
    /\ ctl = <<>>
    /\ calls = <<>>
    /\ wip = NoPartial
    /\ doc = <<>>

\* one call of a method, and the `?` of its caller
Do(c) ==
    /\ ser' = Call(ser, c)
    /\ calls' = Append(calls, c)
    /\ pc' = IF ser'.err # "none" THEN "err" ELSE "calls"
Callable == pc = "calls" /\ Len(calls) < MaxCalls

CallUnsigned ==
    /\ Callable
    /\ \E c \in UnsignedCalls : Do(c)
    /\ UNCHANGED <<shape, ctl, wip, doc, val>>
CallSigned ==
    /\ Callable
    /\ \E c \in SignedCalls : Do(c)
    /\ UNCHANGED <<shape, ctl, wip, doc, val>>
CallText ==
    /\ Callable
    /\ \E c \in TextCalls : Do(c)
    /\ UNCHANGED <<shape, ctl, wip, doc, val>>
CallOtherScalar ==
    /\ Callable
    /\ \E c \in OtherScalarCalls : Do(c)
    /\ UNCHANGED <<shape, ctl, wip, doc, val>>
CallFieldName ==
    /\ Callable
    /\ \E c \in FieldNameCalls : Do(c)
    /\ UNCHANGED <<shape, ctl, wip, doc, val>>
CallOpen ==
    /\ Callable
    /\ \E c \in OpenCalls : Do(c)
    /\ UNCHANGED <<shape, ctl, wip, doc, val>>

CallNext == CallUnsigned \/ CallSigned \/ CallText \/ CallOtherScalar \/ CallFieldName \/ CallOpen

CallSpec == CallInit /\ [][CallNext]_vars

\* ================================================================ claims

IsPrefix(a, b) == Len(a) <= Len(b) /\ \A i \in 1..Len(a) : a[i] = b[i]
\* from_str is reading document D: what it has read so far is the beginning
\* of D (an error met there is the error from_str returns on D)
Reads(D) == doc # <<>> /\ IsPrefix(doc, D)
Finished == pc \in {"ok", "err", "panic"}

\* the events of reading a document whose nodes have no children block
RECURSIVE EntryTokens(_)
EntryTokens(es) ==
    IF es = <<>> THEN <<>> ELSE <<EntryToken(Head(es))>> \o EntryTokens(Tail(es))
RECURSIVE NodeTokens(_)
NodeTokens(ns) ==
    IF ns = <<>> THEN <<>>
    ELSE <<NodeToken(Head(ns).name, IF Head(ns).entries = <<>> THEN "bare" ELSE "flat", 0)>>
         \o EntryTokens(Head(ns).entries) \o <<EndNode>> \o NodeTokens(Tail(ns))
TokensOf(document) == <<Parsed>> \o NodeTokens(document) \o <<EndDoc>>

\* the paths of the scalar fields of a type made of structs and scalars, the
\* type at a path, and the values of the type: a scalar for every path
RECURSIVE LeafPaths(_)
LeafPaths(t) ==
    IF t \in DOMAIN StructTypes
    THEN UNION {{<<StructTypes[t][i].name>> \o p : p \in LeafPaths(StructTypes[t][i].ty)}
                : i \in 1..Len(StructTypes[t])}
    ELSE {<<>>}
RECURSIVE TypeAt(_, _)
TypeAt(t, path) ==
    IF path = <<>> THEN t
    ELSE TypeAt(StructTypes[t][FieldIndex(t, Head(path))].ty, Tail(path))
KindAt(t, path) == ShapeOf(TypeAt(t, path)).scalar
OfKind(kind, x) ==
    CASE kind = "String" -> x.k = "String"
      [] kind = "Bool" -> x.k = "Bool"
      [] kind \in IntKinds -> x.k = "Integer" /\ AsCast(x.n, Bits(kind), kind \in SignedKinds) = x.n
      [] OTHER -> FALSE
ValuesOf(t) ==
    {v \in [LeafPaths(t) -> Values] : \A p \in LeafPaths(t) : OfKind(KindAt(t, p), v[p])}

\* the struct shapes made of scalar fields and nested structs
StructShapes == {t \in RootTypes \cap DOMAIN StructTypes :
                    \A p \in LeafPaths(t) : TypeAt(t, p) \in DOMAIN ScalarTypes}

\* C1: for every value v of a struct shape, from_str of the text of
\* to_string(v) succeeds and gives a value equal to v.
RoundTrip ==
    shape \in StructShapes =>
        \A v \in ValuesOf(shape) :
            LET D == TokensOf(to_string(shape, v).document)
            IN /\ Reads(D) => pc # "err"
               /\ doc = D => pc = "ok" /\ wip.written = v

\* ------------------------------------------------ what the log says
Log == wip.log
Writes == {"set", "set_default", "parse_from_str", "set_from_function"}
\* the token being read when operation i was called
TokenOf(i) == doc[Log[i].tok]
\* the field written by the write i, and the type holding it
WrittenField(i) ==
    LET path == Log[i].path
        owner == TypeAt(shape, SubSeq(path, 1, Len(path) - 1))
    IN StructTypes[owner][FieldIndex(owner, path[Len(path)])]
ArgumentFields(t) == {i \in 1..Len(ShapeOf(t).fields) : ShapeOf(t).fields[i].role = "argument"}
\* how many unnamed entries of the entry token j's node were read before it
UnnamedBefore(j) ==
    LET start == CHOOSE n \in 1..j : doc[n].t = "node" /\ \A m \in (n + 1)..j : doc[m].t = "entry"
    IN Cardinality({m \in (start + 1)..(j - 1) : doc[m].name = NoName})

\* C2: the enters and exits on the cursor nest like the document tree: an
\* entry's enter is closed by its own exit before the next entry or child
\* node of the node is read, so that in a node entered with begin_field the
\* cursor is one frame deep per open node; the cursor is back at the root
\* after each top-level node; build is only called at the root.
CursorNesting ==
    wip.alloc =>
        /\ Len(wip.frames) >= 1
        /\ pc = "walk" /\ Cur.at = "entries" => Len(wip.frames) = Len(ctl) + 1
        /\ pc = "walk" /\ Cur.fn = "node" /\ Cur.at = "loop" => Len(wip.frames) = 1
        /\ \A i \in DOMAIN Log : Log[i].op = "build" => Log[i].depth = 1

\* C3: three unnamed entries of a node bound to Triple (fields a, b, c in
\* Argument role) are written to a, b and c in that order, with or without
\* a children block; and a top-level node without children block carrying
\* one value binds it to the one Argument field of the Child struct named
\* after the node (tests/simple.rs, simple_string_value).
TripleDoc(form) ==
    <<Parsed, NodeToken("t", form, 0),
      EntryToken([name |-> NoName, value |-> StrV("hello")]),
      EntryToken([name |-> NoName, value |-> IntV(FromNat(42))]),
      EntryToken([name |-> NoName, value |-> BoolV(TRUE)])>>
    \o (IF form = "block" THEN <<EndBlock>> ELSE <<>>) \o <<EndNode, EndDoc>>
TripleValue ==
    (<<"t", "a">> :> StrV("hello")) @@ (<<"t", "b">> :> IntV(FromNat(42)))
    @@ (<<"t", "c">> :> BoolV(TRUE))
NameDoc ==
    <<Parsed, NodeToken("name", "flat", 0),
      EntryToken([name |-> NoName, value |-> StrV("hello")]), EndNode, EndDoc>>
ArgumentOrdering ==
    /\ shape = "TripleRoot" =>
         \A form \in {"flat", "block"} :
            /\ Reads(TripleDoc(form)) => pc # "err"
            /\ doc = TripleDoc(form) => pc = "ok" /\ wip.written = TripleValue
    /\ shape = "Config" =>
         /\ Reads(NameDoc) => pc # "err"
         /\ doc = NameDoc => pc = "ok" /\ wip.written = (<<"name", "value">> :> StrV("hello"))

\* C4: an unnamed entry is only ever written to an Argument-role field, the
\* Nth unnamed entry of a node to the Nth Argument-role field of the type
\* in declaration order; and reading more unnamed entries in a node than the
\* type has Argument-role fields is an error.
PositionalOnlyArguments ==
    \A i \in DOMAIN Log :
        Log[i].op \in Writes /\ Log[i].ok /\ TokenOf(i).t = "entry" /\ TokenOf(i).name = NoName
        => LET path == Log[i].path
               owner == TypeAt(shape, SubSeq(path, 1, Len(path) - 1))
               args == ArgumentFields(owner)
               nth == UnnamedBefore(Log[i].tok)
           IN /\ WrittenField(i).role = "argument"
              /\ nth < Cardinality(args)
              /\ Cardinality({a \in args : a < FieldIndex(owner, path[Len(path)])}) = nth

\* C5: a named entry is written to a field iff the current type has a
\* Property-role field of that name; any other named entry makes from_str
\* fail.
NamedOnlyProperties ==
    /\ \A i \in DOMAIN Log :
          Log[i].op \in Writes /\ Log[i].ok /\ TokenOf(i).t = "entry" /\ TokenOf(i).name # NoName
          => WrittenField(i).role = "property" /\ WrittenField(i).name = TokenOf(i).name
    /\ \A i \in DOMAIN Log :
          Log[i].op = "begin_field" /\ TokenOf(i).t = "entry" /\ TokenOf(i).name # NoName
          => LET t == TypeAt(shape, Log[i].path)
                 isProperty == /\ ShapeOf(t).ty = "Struct"
                               /\ FieldIndex(t, TokenOf(i).name) # 0
                               /\ StructTypes[t][FieldIndex(t, TokenOf(i).name)].role = "property"
             IN ~isProperty => pc = "err"

\* C7: `settings { enabled #true }` against RootConfig { child settings:
\* Settings { property enabled: bool } } succeeds with settings.enabled ==
\* true (tests/debug_deser.rs, test_root_with_children).
SettingsDoc ==
    <<Parsed, NodeToken("settings", "block", 0), NodeToken("enabled", "flat", 1),
      EntryToken([name |-> NoName, value |-> BoolV(TRUE)]), EndNode, EndBlock, EndNode, EndDoc>>
NestedValue ==
    shape = "RootConfig" =>
        /\ Reads(SettingsDoc) => pc # "err"
        /\ doc = SettingsDoc => pc = "ok" /\ wip.written = (<<"settings", "enabled">> :> BoolV(TRUE))

\* C8 as stated: a top-level node without children block, named after a
\* scalar field F of the root struct and carrying one unnamed value v of
\* F's kind, makes from_str succeed with F == v, whatever F's role.
FlatDoc(F, v) ==
    <<Parsed, NodeToken(F, "flat", 0), EntryToken([name |-> NoName, value |-> v]),
      EndNode, EndDoc>>
ScalarFields(t) ==
    {f \in {StructTypes[t][i] : i \in 1..Len(StructTypes[t])} : f.ty \in DOMAIN ScalarTypes}
FlatReads(f) ==
    \A v \in {x \in Values : OfKind(ScalarTypes[f.ty], x)} :
        /\ Reads(FlatDoc(f.name, v)) => pc # "err"
        /\ doc = FlatDoc(f.name, v) => pc = "ok" /\ wip.written = (<<f.name>> :> v)
FlatRootFieldAnyRoot ==
    shape \in DOMAIN StructTypes => \A f \in ScalarFields(shape) : FlatReads(f)

\* C8: a top-level node without children block, named after a scalar field
\* F of the root struct and carrying one unnamed value v of F's kind, makes
\* from_str succeed with F == v, whatever F's role, when the root struct has
\* no other required field.
FlatRootField ==
    shape \in DOMAIN StructTypes =>
        \A f \in ScalarFields(shape) : RequiredLeaves(shape) \subseteq {<<f.name>>} => FlatReads(f)
FlatRootFieldRead ==
    /\ pc = "ok"
    /\ \/ shape = "CountConfig" /\ doc = FlatDoc("count", IntV(FromNat(42)))
       \/ shape = "SimpleString" /\ doc = FlatDoc("value", StrV("hello"))

\* C9: when every field of the root type is Child-role, every top-level node
\* that has been read was matched by exactly one begin_field at root depth,
\* and that begin_field names the node.
AllChild(t) == t \in DOMAIN StructTypes /\ \A i \in 1..Len(StructTypes[t]) : StructTypes[t][i].role = "child"
\* the top-level node token that the token j belongs to
TopNodeOf(j) == CHOOSE n \in 1..j : doc[n].t = "node" /\ doc[n].depth = 0
                                    /\ \A m \in (n + 1)..j : ~(doc[m].t = "node" /\ doc[m].depth = 0)
RootEnters(n) ==
    {i \in DOMAIN Log : Log[i].op = "begin_field" /\ Log[i].depth = 1 /\ TopNodeOf(Log[i].tok) = n}
RootDispatch ==
    AllChild(shape) =>
        \A n \in DOMAIN doc :
            doc[n].t = "node" /\ doc[n].depth = 0 =>
                /\ \A i \in RootEnters(n) : Log[i].arg = doc[n].name
                /\ (pc # "err" /\ \E m \in (n + 1)..Len(doc) : doc[m].t = "end_node" /\ TopNodeOf(m) = n)
                   => Cardinality(RootEnters(n)) = 1

\* C10: two `process` nodes against ProcessList { child process:
\* Vec<Process> } are read without error, one list element is begun per
\* node, and from_str succeeds (tests/debug_deser.rs, test_process_list).
ProcessDoc ==
    <<Parsed, NodeToken("process", "flat", 0),
      EntryToken([name |-> NoName, value |-> StrV("hello")]), EndNode,
      NodeToken("process", "flat", 0),
      EntryToken([name |-> NoName, value |-> StrV("hello")]), EndNode, EndDoc>>
ListItems == {i \in DOMAIN Log : Log[i].op = "begin_list_item" /\ Log[i].ok}
RepeatedChildren ==
    shape = "ProcessList" =>
        /\ Reads(ProcessDoc) => pc # "err"
        /\ doc = ProcessDoc => pc = "ok" /\ Cardinality(ListItems) = 2

\* the entry of a `field value` document, the field it is presented to and
\* the kind of that field
TheEntry == doc[3]
Target == IF TheEntry.name = NoName THEN doc[2].name ELSE TheEntry.name
TargetKind == ScalarTypes[Target]
\* n is a value of the integer kind: casting it to the kind changes nothing
InRange(kind, n) ==
    /\ AsCast(n, Bits(kind), kind \in SignedKinds) = n
    /\ kind \in UnsignedKinds => ~IsNeg(n)
NothingWritten == wip.written = <<>> /\ \A i \in DOMAIN Log : Log[i].op \notin Writes

\* C6: an Integer n presented to a field of an integer kind is written, as
\* exactly n, iff n is in the range of the kind; any other n is a coercion
\* error with nothing written.
IntegerRange ==
    shape = "Scalars" /\ Len(doc) >= 3 /\ TheEntry.value.k = "Integer" /\ TargetKind \in IntKinds
    => IF InRange(TargetKind, TheEntry.value.n)
       THEN pc # "err" /\ wip.written = (<<Target>> :> IntV(TheEntry.value.n))
       ELSE pc = "err" /\ wip.err = "Reflect" /\ NothingWritten
IntegerRangeEnds ==
    /\ shape = "Scalars" /\ pc = "ok"
    /\ doc[2].name = "u8" /\ TheEntry.name = NoName
    /\ wip.written = (<<"u8">> :> IntV(FromNat(255)))

\* C11: a Null presented to a scalar field of any kind gives exactly one
\* set_default on that field, no write of a scalar, and no error.
NullToDefault ==
    shape = "Scalars" /\ Len(doc) >= 3 /\ TheEntry.value = NullV
    => /\ pc # "err"
       /\ wip.err = "none"
       /\ Cardinality({i \in DOMAIN Log : Log[i].op = "set_default" /\ Log[i].ok
                                          /\ Log[i].path = <<Target>>}) = 1
       /\ \A i \in DOMAIN Log : Log[i].op \in Writes => Log[i].op = "set_default"
       /\ wip.written = (<<Target>> :> DefaultOf(TargetKind))
NullDefaulted ==
    /\ shape = "Scalars" /\ pc = "ok"
    /\ TheEntry.value = NullV /\ Target = "char" /\ TheEntry.name = NoName
    /\ wip.written = (<<"char">> :> DefaultOf("Char"))

\* the kind of the error from_str returns and the field names it carries:
\* Reflect carries the one field of the refused operation
ErrorKind == wip.err
ErrorNames ==
    IF wip.err = "Reflect" /\ Log # <<>> /\ ~Log[Len(Log)].ok
    THEN {Log[Len(Log)].arg} \ {""}
    ELSE {}

\* C12: when the walk of the document succeeded and two or more required
\* fields are unfilled, from_str returns one missing-fields error
\* (KdlErrorKind::MissingNodes) that lists all of them.
MissingAllReported ==
    (/\ pc = "err" /\ doc # <<>> /\ doc[Len(doc)] = EndDoc
     /\ Len(wip.frames) = 1 /\ Cardinality(MissingFields(wip)) >= 2)
    => ErrorKind = "MissingNodes" /\ ErrorNames = MissingFields(wip)

\* C13: once an operation of the walk has failed, from_str is returning an
\* error: the only operations after it are the further attempts on the same
\* value, none is issued for a later entry or node, build is not called, and
\* a value is returned only when no operation failed.
AbortOnFailure ==
    /\ wip.err # "none" => pc = "err"
    /\ \A i \in DOMAIN Log :
          ~Log[i].ok =>
              /\ pc = "err"
              /\ \A j \in (i + 1)..Len(Log) : Log[j].tok = Log[i].tok /\ Log[j].op # "build"
    /\ pc = "ok" => /\ \A i \in DOMAIN Log : Log[i].ok
                    /\ Log[Len(Log)].op = "build"
                    /\ \A i \in 1..(Len(Log) - 1) : Log[i].op # "build"
AbortedMidway ==
    /\ pc = "err" /\ wip.written # <<>> /\ Size(doc) < MaxTokens
    /\ ~Log[Len(Log)].ok /\ Log[Len(Log)].op \in {"begin_field", "begin_nth_field"}

\* C14: from_str never ends in a panic: once the text is parsed, a root type
\* that is not a struct gives the error InvalidDocumentShape.
RootShapeRejected ==
    /\ pc # "panic"
    /\ shape \notin DOMAIN StructTypes /\ doc # <<>>
       => pc = "err" /\ wip.err = "InvalidDocumentShape"

\* ------------------------------------------- what to_string returned
Returned == pc = "returned"
TopNode == ser.document[1]
Entry(name, value) == [name |-> name, value |-> value]
\* the KDL value a scalar call is given
KdlValueOf(c) ==
    CASE c.op = "serialize_none" -> NullV
      [] c.op = "serialize_char" -> StrV(c.arg.c)
      [] OTHER -> c.arg
IsScalarCall(c) == c.op \in ScalarOps
\* the values of the scalar calls made so far, in order
RECURSIVE ValuesIn(_)
ValuesIn(cs) ==
    IF cs = <<>> THEN <<>>
    ELSE (IF IsScalarCall(Head(cs)) THEN <<KdlValueOf(Head(cs))>> ELSE <<>>) \o ValuesIn(Tail(cs))
ValuesOn(node) == [i \in 1..Len(node.entries) |-> node.entries[i].value]
\* how many struct values the traversal is inside of
ObjectDepth ==
    Cardinality({i \in DOMAIN calls : calls[i].op = "start_object"})
    - Cardinality({i \in DOMAIN calls : calls[i].op = "end_object"})

\* C15: to_string of RootConfig { settings: Settings { enabled: true } }
\* gives a document of one top-level node, named `settings`, carrying the
\* named entry enabled=#true.
SettingsNode ==
    shape = "RootConfig" /\ Returned /\ val.settings.enabled = BoolV(TRUE)
    => /\ Len(ser.document) = 1
       /\ TopNode.name = "settings"
       /\ TopNode.entries = <<Entry("enabled", BoolV(TRUE))>>

\* C16: the document to_string returns has exactly one top-level node, named
\* `root`, and the values emitted during the traversal are its entries, in
\* order; until then they are the entries of the current node `root`.
RootNodeWraps ==
    /\ Returned => /\ Len(ser.document) = 1
                   /\ TopNode.name = "root"
                   /\ TopNode.children = <<>>
                   /\ ValuesOn(TopNode) = ValuesIn(calls)
                   /\ ser.current_node = <<>>
    /\ pc = "serialize" => /\ ser.document = <<>>
                           /\ Len(ser.current_node) = 1
                           /\ ser.current_node[1].name = "root"
                           /\ ValuesOn(ser.current_node[1]) = ValuesIn(calls)
RootNodeReturned ==
    /\ Returned /\ shape = "SimpleProcess"
    /\ Len(TopNode.entries) = 3 /\ TopNode.name = "root"

\* C17: inside the Child-role struct field `settings` the current node is a
\* new node named `settings`, with the parent on the node stack; the entries
\* of the nested struct are on that node, which ends up among the children
\* of its parent; the node stack is empty when to_string returns.
ChildNodesNested ==
    shape = "RootConfig" =>
        /\ pc = "serialize" /\ ObjectDepth = 2
           => /\ Len(ser.node_stack) = 1
              /\ ser.current_node[1].name = "settings"
        /\ Returned
           => /\ ser.node_stack = <<>>
              /\ TopNode.entries = <<>>
              /\ Len(TopNode.children) = 1
              /\ TopNode.children[1].name = "settings"
              /\ TopNode.children[1].entries = <<Entry("enabled", val.settings.enabled)>>

\* C18: the scalar fields of a struct are emitted on the node being built
\* in the form of their role: a Property field as a named entry carrying the
\* field's name, an Argument field as an unnamed entry.
AllScalar(t) ==
    t \in DOMAIN StructTypes /\ \A i \in 1..Len(StructTypes[t]) : StructTypes[t][i].ty \in DOMAIN ScalarTypes
RoleDecidesForm ==
    AllScalar(shape) /\ Returned
    => TopNode.entries =
          [i \in 1..Len(StructTypes[shape]) |->
              LET f == StructTypes[shape][i]
              IN Entry(IF f.role = "argument" THEN NoName ELSE f.name, val[f.name])]

\* C19: an Option field that is None is given no entry at all; the entries
\* are those of the fields that hold a value.
OptionEntry(name) == IF val[name] = <<>> THEN <<>> ELSE <<Entry(name, val[name][1])>>
AbsentOmitted ==
    shape = "OptionalConfig" /\ Returned
    => /\ TopNode.entries = <<Entry("name", val.name)>> \o OptionEntry("description")
                            \o OptionEntry("count")
       /\ \A i \in DOMAIN TopNode.entries : TopNode.entries[i].value # NullV

\* C20: a Vec field of n elements is emitted as n entries in element order,
\* all of the form of the field's role: for the Property-role field `args`,
\* n named entries carrying the name args.
SequenceSiblings ==
    shape = "ArgsConfig" /\ Returned
    => LET items == SubSeq(TopNode.entries, 2, Len(TopNode.entries))
       IN /\ Len(items) = Len(val.args)
          /\ \A i \in DOMAIN items : items[i] = Entry("args", val.args[i])

\* ------------------------------------- calls of the Serializer's methods
LastCall == calls[Len(calls)]
Before == SubSeq(calls, 1, Len(calls) - 1)
\* the calls that pushed an entry: the scalar calls that returned Ok
Emitting == {i \in DOMAIN calls : /\ calls[i].op \in ScalarOps \cup {"serialize_unit_variant"}
                                  /\ ~(i = Len(calls) /\ pc = "err")}
OnRoot == ser.current_node # <<>>
EntriesNow == IF OnRoot THEN ser.current_node[1].entries ELSE <<>>
\* the i128 whose numeric value is that of the unsigned v: v itself, with a
\* clear sign bit
EqualsUnsigned(p, v) == p = v /\ ~IsNeg(p)
Representable(v) == ~ULess(MaxOf("I128"), v)

CharacterCoercion ==
    shape = "Scalars" /\ Len(doc) >= 3 /\ TheEntry.value.k = "String" /\ TargetKind = "Char"
    => IF CodePoints(TheEntry.value.s) = 1
       THEN pc # "err" /\ wip.written = (<<Target>> :> CharV(TheEntry.value.s))
       ELSE pc = "err" /\ wip.err = "Reflect" /\ wip.written = <<>>
CharacterOfTwoBytes ==
    /\ shape = "Scalars" /\ pc = "ok" /\ Len(doc) >= 3
    /\ TheEntry.value = StrV("e-acute") /\ ByteLen("e-acute") = 2
    /\ wip.written = (<<"char">> :> CharV("e-acute"))

\* the pairings with a coercion rule of their own
DirectRule(kind, value) ==
    \/ kind \in {"String", "CowStr"} /\ value.k = "String"
    \/ kind = "Bool" /\ value.k = "Bool"
    \/ kind \in IntKinds /\ value.k = "Integer" /\ InRange(kind, value.n)
    \/ kind \in {"F32", "F64"} /\ value.k \in {"Float", "Integer"}
    \/ kind = "Char" /\ value.k = "String" /\ CodePoints(value.s) = 1

\* C23: a value other than Null presented to a scalar field whose kind has
\* no coercion rule for it (an Integer to a String field, a Bool to an
\* integer field, an Integer out of range, ...) has parse_from_str attempted
\* on that field before any error is returned.
TextParsingFallback ==
    shape = "Scalars" /\ Len(doc) >= 3 /\ TheEntry.value # NullV
    /\ ~DirectRule(TargetKind, TheEntry.value)
    => \E i \in DOMAIN Log : Log[i].op = "parse_from_str" /\ Log[i].path = <<Target>>

\* the type of the field the enter i of the log entered
Compound(t) == t \in DOMAIN StructTypes \cup DOMAIN ListTypes
EnteredType(i) ==
    LET owner == TypeAt(shape, Log[i].path)
    IN IF Log[i].op = "begin_field"
       THEN StructTypes[owner][FieldIndex(owner, Log[i].arg)].ty
       ELSE StructTypes[owner][Log[i].idx + 1].ty
\* the enter i was made for an entry, whose value is then presented to the
\* field entered
EntersForEntry(i) ==
    /\ Log[i].op \in {"begin_field", "begin_nth_field"} /\ Log[i].ok
    /\ TokenOf(i).t = "entry"

\* C24: when the value of an entry is presented to a field of a struct or
\* list type, from_str fails with InvalidDocumentShape and no set,
\* set_default or parse_from_str is called on that field.
NoScalarIntoCompound ==
    wip.alloc =>
        \A i \in DOMAIN Log :
            EntersForEntry(i) /\ Compound(EnteredType(i))
            => /\ pc = "err" /\ wip.err = "InvalidDocumentShape"
               /\ \A j \in DOMAIN Log : j > i => Log[j].op \notin Writes

\* C25: the begin_field of a child node is called with the cursor at the
\* field entered for the node that holds the children block, one frame per
\* open node and none for an entry of it; and when the block has been read
\* the cursor is still in that field, which the node's end() then exits.
ChildrenAtNodeDepth ==
    wip.alloc =>
        /\ \A i \in DOMAIN Log :
              Log[i].op = "begin_field" /\ TokenOf(i).t = "node" /\ TokenOf(i).depth >= 1
              => Log[i].depth = TokenOf(i).depth + 1
        /\ pc = "walk" /\ Cur.at = "end" => Len(wip.frames) = Len(ctl) + 1

\* the calls of build()
Builds == {i \in DOMAIN Log : Log[i].op = "build"}
WalkReturned == doc # <<>> /\ doc[Len(doc)] = EndDoc

\* C26: a text that does not parse gives the parse error and no Partial;
\* a text that parses gives one Partial; build() is called at most once,
\* only when the walk has returned, and exactly once when the walk returned
\* Ok; a build() that fails is the error from_str returns.
CursorLifecycle ==
    /\ pc = "err" /\ wip.err = "Parse" => ~wip.alloc /\ doc = <<>> /\ Log = <<>>
    /\ wip.alloc <=> doc # <<>>
    /\ Cardinality(Builds) <= 1
    /\ \A i \in Builds : i = Len(Log) /\ TokenOf(i) = EndDoc /\ ctl = <<>>
    /\ WalkReturned <=> Cardinality(Builds) = 1
    /\ \A i \in Builds : IF Log[i].ok THEN pc = "ok" /\ wip.err = "none"
                         ELSE pc = "err" /\ wip.err = "Reflect"
    /\ pc = "ok" => Cardinality(Builds) = 1
BuildRefused ==
    /\ pc = "err" /\ WalkReturned
    /\ \E i \in Builds : ~Log[i].ok /\ Log[i].depth = 1
    /\ \E i \in DOMAIN Log : Log[i].op = "set" /\ Log[i].ok

\* the enters and the successful writes made while token j was being read
EntersAt(j) == {i \in DOMAIN Log : Log[i].tok = j /\ Log[i].op \in {"begin_field", "begin_nth_field"}}
WritesAt(j) == {i \in DOMAIN Log : Log[i].tok = j /\ Log[i].op \in Writes /\ Log[i].ok}
\* the walk so far: the operations on the Partial follow the order of the
\* document; every node is entered once (a top-level node without children
\* block is not entered itself, its entries are), every
\* entry is entered once and written once, an unnamed entry at the index of
\* its position among the unnamed entries; the entries of a node are read
\* right after the node, before any child node
PreOrderSoFar ==
    pc \in {"walk", "ok"} /\ wip.alloc =>
        /\ \A i, k \in DOMAIN Log : i < k => Log[i].tok <= Log[k].tok
        /\ \A j \in DOMAIN doc :
              /\ doc[j].t = "node"
                 => Cardinality(EntersAt(j)) =
                       IF doc[j].form = "flat" /\ doc[j].depth = 0 THEN 0 ELSE 1
              /\ doc[j].t = "entry"
                 => /\ doc[j - 1].t \in {"node", "entry"}
                    /\ Cardinality(EntersAt(j)) = 1
                    /\ Cardinality(WritesAt(j)) = 1
                    /\ \A i \in EntersAt(j) :
                          Log[i].op = "begin_nth_field" => Log[i].idx = UnnamedBefore(j)

ScalarMethods ==
    DOMAIN UnsignedArgs \cup DOMAIN SignedArgs
    \cup {"serialize_bool", "serialize_f64", "serialize_str", "serialize_char", "serialize_none"}
\* nothing was added anywhere: the serializer is as KdlSerializer::new made
\* it, but for the pending key
NothingAdded == ser.document = <<>> /\ ser.current_node = <<>> /\ ser.node_stack = <<>>

\* C28 as claimed: on a serializer without current node every scalar method
\* returns Ok and leaves document, current_node and node_stack as they
\* were; no method adds a node to document or to node_stack.
SilentDropAlways ==
    pc \in {"calls", "err"} =>
        /\ ~OnRoot /\ calls # <<>> /\ LastCall.op \in ScalarMethods
           => pc = "calls" /\ NothingAdded
        /\ ser.document = <<>> /\ ser.node_stack = <<>>

\* C28 amended: the same, but for serialize_u128 of a value above i128::MAX,
\* which returns its error, the state unchanged, with or without a node.
SilentDrop ==
    pc \in {"calls", "err"} =>
        /\ ~OnRoot /\ calls # <<>> /\ LastCall.op \in ScalarMethods
           => /\ NothingAdded
              /\ IF LastCall.op = "serialize_u128" /\ ~Representable(LastCall.arg.n)
                 THEN pc = "err"
                 ELSE pc = "calls"
        /\ ser.document = <<>> /\ ser.node_stack = <<>>
SilentlyDropped ==
    /\ pc = "calls" /\ ~OnRoot /\ NothingAdded
    /\ Len(calls) = 3 /\ \A i \in DOMAIN calls : calls[i].op \in ScalarMethods
    /\ calls[3].op = "serialize_u128"

\* the k-th call that pushed an entry, and the key pending when call j is
\* made: the name of the last serialize_field_name since the last entry
KthEmitting(k) == CHOOSE j \in Emitting : Cardinality({m \in Emitting : m < j}) = k - 1
NamesBefore(j) ==
    {i \in 1..(j - 1) : /\ calls[i].op = "serialize_field_name"
                        /\ ~\E m \in Emitting : i < m /\ m < j}
KeyAt(j) ==
    IF NamesBefore(j) = {} THEN NoName
    ELSE calls[CHOOSE i \in NamesBefore(j) : \A m \in NamesBefore(j) : m <= i].arg

\* C29: after any calls on a serializer with a current node, the entries of
\* the node are those of the scalar calls, in order; an entry carries the
\* name of the last serialize_field_name called since the entry before it,
\* whatever start_object, start_array, start_some or serialize_unit came in
\* between, and is positional if there was none; the key still pending is
\* that of the calls since the last entry.
PendingKeyAttribution ==
    pc \in {"calls", "err"} /\ OnRoot =>
        /\ Len(EntriesNow) = Cardinality(Emitting)
        /\ \A k \in DOMAIN EntriesNow : EntriesNow[k].name = KeyAt(KthEmitting(k))
        /\ ser.current_key = IF KeyAt(Len(calls) + 1) = NoName THEN <<>>
                             ELSE <<KeyAt(Len(calls) + 1)>>
KeyOutlivesUnit ==
    /\ pc = "calls" /\ OnRoot
    /\ calls = <<SerCall("serialize_field_name", "a"), SerCall("serialize_unit", ""),
                 SerCall("serialize_bool", BoolV(TRUE))>>
    /\ EntriesNow = <<Entry("a", BoolV(TRUE))>>
====
